---------------------------- MODULE Spec2Model ----------------------------
(* A model of the ride sharing system of src/main.cpp: the Ride hierarchy  *)
(* (StandardRide, PremiumRide), the Driver and the Rider, and the          *)
(* demonstration routine demonstrateSystemFunctionality.                   *)
(*                                                                         *)
(* Every C++ statement is one step.  The control state is a call stack of  *)
(* frames [fn, line, self, i]: the function, the source line of its next   *)
(* statement, the ride it runs on and a loop index.                        *)
(*                                                                         *)
(* Two specifications share the method steps.  Spec is an open client that *)
(* calls the public operations in any order on the rides it holds and      *)
(* reads std::cout between its calls; DemoSpec is the run of main, which   *)
(* executes the statements of demonstrateSystemFunctionality in order.     *)
(*                                                                         *)
(* Units.  A distance is an integer number of tenths of a mile, a rate an  *)
(* integer number of tenths of a dollar per mile and a fare an integer     *)
(* number of hundredths of a dollar, so that distance * rate is a fare.    *)
(* The arithmetic is exact: the rounding of binary doubles is not          *)
(* modelled.                                                               *)
EXTENDS Integers, Sequences, FiniteSets, TLC

VARIABLES
    heap,         \* the Ride objects, by handle 1..Len(heap)
    locals,       \* locals[h]: the caller's unique_ptr binding of ride h (h or NULL)
    param,        \* the by-value parameter `ride` of requestRide / addRide
    rider,        \* the Rider object
    driver,       \* the Driver object
    systemRides,  \* the vector systemRides of the demonstration routine
    out,          \* std::cout, as the sequence of the lines not yet consumed
    stack,        \* the call stack, innermost frame first
    ret,          \* the value the current client call returned
    mark,         \* history: Len(out) when the current client call began
    requestLog,   \* history: the rides passed to requestRide, in call order
    addLog,       \* history: the rides passed to addRide, in call order
    ip,           \* demonstration routine: index of its next statement (0: not running)
    it            \* demonstration routine: index of the range-for loop over systemRides

vars == <<heap, locals, param, rider, driver, systemRides, out, stack, ret,
          mark, requestLog, addLog, ip, it>>

NULL == 0

\* ------------------------------------------------------------- bounds
MaxRides == 2   \* rides an open client constructs
MaxCalc == 2    \* calculateFare runs per ride under an open client

\* ---------------------------------------------------------- constants
StandardRide_RATE_PER_MILE == 20   \* 2.0
PremiumRide_RATE_PER_MILE == 35    \* 3.5
PREMIUM_SURCHARGE == 500           \* 5.0

Kinds == {"StandardRide", "PremiumRide"}

\* The rides an open client constructs: the first two of the demonstration
\* (a StandardRide of 10.5 miles, a PremiumRide of 25.0 miles) and a
\* StandardRide of distance 0.0, whose computed fare equals the placeholder.
OpenRides == { <<"StandardRide", "S001", "Downtown", "Suburb A", 105>>,
               <<"PremiumRide", "P002", "Airport", "City Center", 250>>,
               <<"StandardRide", "Z000", "Depot", "Depot", 0>> }

Range(s) == {s[k] : k \in 1..Len(s)}

\* ------------------------------------------------- formatting (iostream)
Digit(n) == <<"0", "1", "2", "3", "4", "5", "6", "7", "8", "9">>[n + 1]

RECURSIVE Dec(_)
\* operator<< of a non-negative integer
Dec(n) == IF n < 10 THEN Digit(n) ELSE Dec(n \div 10) \o Digit(n % 10)

RECURSIVE Pow10(_)
Pow10(p) == IF p = 0 THEN 1 ELSE 10 * Pow10(p - 1)

RECURSIVE Frac(_, _)
\* the p digits of n, zero padded on the left
Frac(n, p) == IF p = 0 THEN "" ELSE Frac(n \div 10, p - 1) \o Digit(n % 10)

\* std::fixed << std::setprecision(p) << v, for v = n / 10^p
Fixed(n, p) ==
    IF n < 0 THEN "-" \o Dec((-n) \div Pow10(p)) \o "." \o Frac((-n) % Pow10(p), p)
    ELSE Dec(n \div Pow10(p)) \o "." \o Frac(n % Pow10(p), p)

Separator == "--------------------"

\* ------------------------------------------------------------- Ride
\* Ride::Ride: the member initialiser list; fare starts as the placeholder 0.0
Ride_ctor(kind, id, pickup, dropoff, dist) ==
    [kind |-> kind, rideID |-> id, pickupLocation |-> pickup,
     dropoffLocation |-> dropoff, distance |-> dist, fare |-> 0, calcCount |-> 0]

\* faulty variant: adds the fare to the old one instead of assigning it
StandardRide_calculateFare_Accumulates(r) ==
    [r EXCEPT !.fare = @ + r.distance * StandardRide_RATE_PER_MILE, !.calcCount = @ + 1]

\* StandardRide::calculateFare
StandardRide_calculateFare(r) ==
    [r EXCEPT !.fare = r.distance * StandardRide_RATE_PER_MILE, !.calcCount = @ + 1]

\* faulty variant: the flat surcharge is left out
PremiumRide_calculateFare_NoSurcharge(r) ==
    [r EXCEPT !.fare = r.distance * PremiumRide_RATE_PER_MILE, !.calcCount = @ + 1]

\* PremiumRide::calculateFare
PremiumRide_calculateFare(r) ==
    [r EXCEPT !.fare = (r.distance * PremiumRide_RATE_PER_MILE) + PREMIUM_SURCHARGE,
              !.calcCount = @ + 1]

\* virtual dispatch of Ride::calculateFare on the dynamic type
calculateFare(r) ==
    IF r.kind = "StandardRide" THEN StandardRide_calculateFare(r)
    ELSE PremiumRide_calculateFare(r)

\* faulty variant: the fare is written with one fractional digit
rideDetailsText_FareOneDecimal(r, line) ==
    CASE line = 35 -> "Ride ID: " \o r.rideID
      [] line = 36 -> "  Pickup: " \o r.pickupLocation
      [] line = 37 -> "  Dropoff: " \o r.dropoffLocation
      [] line = 38 -> "  Distance: " \o Fixed(r.distance, 1) \o " miles"
      [] line = 39 -> "  Fare: $" \o Fixed(r.fare \div 10, 1)

\* Ride::rideDetails: the line its statement at `line` writes
rideDetailsText(r, line) ==
    CASE line = 35 -> "Ride ID: " \o r.rideID
      [] line = 36 -> "  Pickup: " \o r.pickupLocation
      [] line = 37 -> "  Dropoff: " \o r.dropoffLocation
      [] line = 38 -> "  Distance: " \o Fixed(r.distance, 1) \o " miles"
      [] line = 39 -> "  Fare: $" \o Fixed(r.fare, 2)

Frame(fn, line, self, i) == [fn |-> fn, line |-> line, self |-> self, i |-> i]
Idle == stack = <<>>
Top == stack[1]
In(fn, line) == stack # <<>> /\ Top.fn = fn /\ Top.line = line
\* the innermost frame moves on to `line`
Goto(line) == <<[Top EXCEPT !.line = line]>> \o Tail(stack)
\* the rides a client can reach: its own bindings and the elements of systemRides
Held == {h \in 1..Len(heap) : locals[h] # NULL} \cup Range(systemRides)
NoRet == [fn |-> "none", self |-> NULL, fare |-> 0, id |-> ""]

\* The state once the Rider (line 164) and the Driver (line 178) are
\* constructed; nothing uses either before its construction.
InitObjects ==
    /\ heap = <<>>
    /\ locals = <<>>
    /\ param = NULL
    /\ rider = [riderID |-> "R001", name |-> "Sandesh Shrestha", requestedRides |-> <<>>]
    /\ driver = [driverID |-> "D001", name |-> "Alice Smith", rating |-> 48,
                 assignedRides |-> <<>>]
    /\ systemRides = <<>>
    /\ out = <<>>
    /\ stack = <<>>
    /\ ret = NoRet
    /\ mark = 0
    /\ requestLog = <<>>
    /\ addLog = <<>>
    /\ it = 0

Init == InitObjects /\ ip = 0

\* Variables a step of the given kind leaves alone.
logs == <<requestLog, addLog>>
demo == <<ip, it>>
\* what a step inside a method leaves alone besides the objects
inner == <<ret, mark, logs, demo>>

\* A client call leaves out, ret, mark, ip and it to its caller: the open
\* client consumes the output between calls, the demonstration does not.

\* ------------------------------------------- construction of a ride
\* std::make_unique<kind>(id, pickup, dropoff, dist): allocation and the base
\* constructor Ride::Ride; the variant's constructor body runs next.
MakeUnique(kind, a) ==
    /\ Idle
    /\ heap' = Append(heap, Ride_ctor(kind, a[1], a[2], a[3], a[4]))
    /\ locals' = Append(locals, NULL)
    /\ stack' = <<Frame(kind, IF kind = "StandardRide" THEN 59 ELSE 79, Len(heap) + 1, 0)>>
    /\ UNCHANGED <<param, rider, driver, systemRides, logs>>

\* faulty variant: the constructor body does not call calculateFare
VariantCtor_SkipsCalculateFare ==
    /\ stack # <<>> /\ Top.fn \in Kinds
    /\ locals' = [locals EXCEPT ![Top.self] = Top.self]
    /\ stack' = Tail(stack)
    /\ UNCHANGED <<heap, param, rider, driver, systemRides, out, inner>>

\* faulty variant: the constructor body calls calculateFare twice
VariantCtor_CalculatesTwice ==
    /\ stack # <<>> /\ Top.fn \in Kinds
    /\ heap' = [heap EXCEPT ![Top.self] = calculateFare(calculateFare(@))]
    /\ locals' = [locals EXCEPT ![Top.self] = Top.self]
    /\ stack' = Tail(stack)
    /\ UNCHANGED <<param, rider, driver, systemRides, out, inner>>

\* StandardRide::StandardRide / PremiumRide::PremiumRide: the body calls
\* calculateFare; make_unique then returns the pointer to the caller's binding.
VariantCtor ==
    /\ stack # <<>> /\ Top.fn \in Kinds
    /\ heap' = [heap EXCEPT ![Top.self] = calculateFare(@)]
    /\ locals' = [locals EXCEPT ![Top.self] = Top.self]
    /\ stack' = Tail(stack)
    /\ UNCHANGED <<param, rider, driver, systemRides, out, inner>>

\* ----------------------------------------------------- Ride's methods
\* faulty variant: the last statement resets the fare it has printed
rideDetails_ClearsFare ==
    /\ stack # <<>> /\ Top.fn = "rideDetails"
    /\ out' = Append(out, rideDetailsText(heap[Top.self], Top.line))
    /\ IF Top.line = 39
       THEN /\ stack' = Tail(stack)
            /\ heap' = [heap EXCEPT ![Top.self].fare = 0]
       ELSE /\ stack' = Goto(Top.line + 1)
            /\ UNCHANGED heap
    /\ UNCHANGED <<locals, param, rider, driver, systemRides, inner>>

\* Ride::rideDetails: one output statement per step; the last one reads fare
rideDetails ==
    /\ stack # <<>> /\ Top.fn = "rideDetails"
    /\ out' = Append(out, rideDetailsText(heap[Top.self], Top.line))
    /\ stack' = IF Top.line = 39 THEN Tail(stack) ELSE Goto(Top.line + 1)
    /\ UNCHANGED <<heap, locals, param, rider, driver, systemRides, inner>>

\* a client's ride->rideDetails()
CallRideDetails(h) ==
    /\ Idle /\ h \in Held
    /\ stack' = <<Frame("rideDetails", 35, h, 0)>>
    /\ UNCHANGED <<heap, locals, param, rider, driver, systemRides, logs>>

\* a client's ride->calculateFare(): virtual dispatch, one assignment
CallCalculateFare(h) ==
    /\ Idle /\ h \in Held
    /\ heap' = [heap EXCEPT ![h] = calculateFare(@)]
    /\ UNCHANGED <<locals, param, rider, driver, systemRides, stack, logs>>

\* a client's ride->getFare()
CallGetFare(h) ==
    /\ Idle /\ h \in Held
    /\ stack' = <<Frame("getFare", 43, h, 0)>>
    /\ UNCHANGED <<heap, locals, param, rider, driver, systemRides, logs>>

\* Ride::getFare: return fare
getFare ==
    /\ In("getFare", 43)
    /\ ret' = [fn |-> "getFare", self |-> Top.self, fare |-> heap[Top.self].fare, id |-> ""]
    /\ stack' = Tail(stack)
    /\ UNCHANGED <<heap, locals, param, rider, driver, systemRides, out, mark,
                   logs, demo>>

\* a client's ride->getRideID()
CallGetRideID(h) ==
    /\ Idle /\ h \in Held
    /\ stack' = <<Frame("getRideID", 47, h, 0)>>
    /\ UNCHANGED <<heap, locals, param, rider, driver, systemRides, logs>>

\* Ride::getRideID: return rideID
getRideID ==
    /\ In("getRideID", 47)
    /\ ret' = [fn |-> "getRideID", self |-> Top.self, fare |-> 0, id |-> heap[Top.self].rideID]
    /\ stack' = Tail(stack)
    /\ UNCHANGED <<heap, locals, param, rider, driver, systemRides, out, mark,
                   logs, demo>>

\* -------------------------------------------------------------- Rider
\* faulty variant: the binding is copied, not moved, and stays live
CallRequestRide_Copies(v) ==
    /\ Idle /\ v \in 1..Len(locals) /\ locals[v] # NULL
    /\ param' = locals[v]
    /\ stack' = <<Frame("requestRide", 139, 0, 0)>>
    /\ requestLog' = Append(requestLog, locals[v])
    /\ UNCHANGED <<heap, locals, rider, driver, systemRides, addLog>>

\* sandesh.requestRide(std::move(rideN)): the binding is moved into the parameter
CallRequestRide(v) ==
    /\ Idle /\ v \in 1..Len(locals) /\ locals[v] # NULL
    /\ param' = locals[v]
    /\ locals' = [locals EXCEPT ![v] = NULL]
    /\ stack' = <<Frame("requestRide", 139, 0, 0)>>
    /\ requestLog' = Append(requestLog, locals[v])
    /\ UNCHANGED <<heap, rider, driver, systemRides, addLog>>

\* faulty variant: the push_back comes before the two output statements
requestRide_StoresFirst ==
    /\ stack # <<>> /\ Top.fn = "requestRide"
    /\ \/ /\ Top.line = 139
          /\ rider' = [rider EXCEPT !.requestedRides = Append(@, param)]
          /\ stack' = Goto(140)
          /\ UNCHANGED <<out, param>>
       \/ /\ Top.line = 140
          /\ out' = out \o <<"", rider.name \o " requested a ride.">>
          /\ stack' = Goto(141)
          /\ UNCHANGED <<rider, param>>
       \/ /\ Top.line = 141
          /\ stack' = <<Frame("rideDetails", 35, param, 0)>> \o Goto(142)
          /\ UNCHANGED <<out, rider, param>>
       \/ /\ Top.line = 142
          /\ param' = NULL
          /\ stack' = Tail(stack)
          /\ UNCHANGED <<out, rider>>
    /\ UNCHANGED <<heap, locals, driver, systemRides, inner>>

\* Rider::requestRide: the notification, the details, then the push_back
requestRide ==
    /\ stack # <<>> /\ Top.fn = "requestRide"
    /\ \/ /\ Top.line = 139
          /\ out' = out \o <<"", rider.name \o " requested a ride.">>
          /\ stack' = Goto(140)
          /\ UNCHANGED <<rider, param>>
       \/ /\ Top.line = 140
          /\ stack' = <<Frame("rideDetails", 35, param, 0)>> \o Goto(141)
          /\ UNCHANGED <<out, rider, param>>
       \/ /\ Top.line = 141
          /\ rider' = [rider EXCEPT !.requestedRides = Append(@, param)]
          /\ param' = NULL
          /\ stack' = Tail(stack)
          /\ UNCHANGED out
    /\ UNCHANGED <<heap, locals, driver, systemRides, inner>>

\* a client's sandesh.viewRides()
CallViewRides ==
    /\ Idle
    /\ stack' = <<Frame("viewRides", 146, 0, 0)>>
    /\ UNCHANGED <<heap, locals, param, rider, driver, systemRides, logs>>

\* Rider::viewRides
viewRides ==
    /\ stack # <<>> /\ Top.fn = "viewRides"
    /\ \/ /\ Top.line = 146
          /\ out' = out \o <<"", "--- " \o rider.name \o "'s Ride History ---">>
          /\ stack' = IF rider.requestedRides = <<>> THEN Goto(148)
                      ELSE <<[Top EXCEPT !.line = 152, !.i = 1]>> \o Tail(stack)
       \/ /\ Top.line = 148
          /\ out' = Append(out, "  No rides requested yet.")
          /\ stack' = Tail(stack)
       \/ /\ Top.line = 152
          /\ stack' = <<Frame("rideDetails", 35, rider.requestedRides[Top.i], 0)>> \o Goto(153)
          /\ UNCHANGED out
       \/ /\ Top.line = 153
          /\ out' = Append(out, Separator)
          /\ stack' = IF Top.i < Len(rider.requestedRides)
                      THEN <<[Top EXCEPT !.line = 152, !.i = @ + 1]>> \o Tail(stack)
                      ELSE Tail(stack)
    /\ UNCHANGED <<heap, locals, param, rider, driver, systemRides, inner>>

\* ------------------------------------------------------------- Driver
\* alice.addRide(std::move(rideN)): the binding is moved into the parameter
CallAddRide(v) ==
    /\ Idle /\ v \in 1..Len(locals) /\ locals[v] # NULL
    /\ param' = locals[v]
    /\ locals' = [locals EXCEPT ![v] = NULL]
    /\ stack' = <<Frame("addRide", 103, 0, 0)>>
    /\ addLog' = Append(addLog, locals[v])
    /\ UNCHANGED <<heap, rider, driver, systemRides, requestLog>>

\* faulty variant: the ride is inserted at the front
addRide_InsertsAtFront ==
    /\ In("addRide", 103)
    /\ driver' = [driver EXCEPT !.assignedRides = <<param>> \o @]
    /\ param' = NULL
    /\ stack' = Tail(stack)
    /\ UNCHANGED <<heap, locals, rider, systemRides, out, inner>>

\* Driver::addRide
addRide ==
    /\ In("addRide", 103)
    /\ driver' = [driver EXCEPT !.assignedRides = Append(@, param)]
    /\ param' = NULL
    /\ stack' = Tail(stack)
    /\ UNCHANGED <<heap, locals, rider, systemRides, out, inner>>

\* a client's alice.getDriverInfo()
CallGetDriverInfo ==
    /\ Idle
    /\ stack' = <<Frame("getDriverInfo", 108, 0, 0)>>
    /\ UNCHANGED <<heap, locals, param, rider, driver, systemRides, logs>>

\* faulty variant: the loop starts at the second ride
getDriverInfo_SkipsFirstRide ==
    /\ stack # <<>> /\ Top.fn = "getDriverInfo"
    /\ \/ /\ Top.line = 108
          /\ out' = out \o <<"", "--- Driver Details ---">>
          /\ stack' = Goto(109)
       \/ /\ Top.line = 109
          /\ out' = Append(out, "Driver ID: " \o driver.driverID)
          /\ stack' = Goto(110)
       \/ /\ Top.line = 110
          /\ out' = Append(out, "Name: " \o driver.name)
          /\ stack' = Goto(111)
       \/ /\ Top.line = 111
          /\ out' = Append(out, "Rating: " \o Fixed(driver.rating, 1) \o "/5.0")
          /\ stack' = Goto(112)
       \/ /\ Top.line = 112
          /\ out' = Append(out, "Completed Rides (" \o Dec(Len(driver.assignedRides)) \o "):")
          /\ stack' = IF Len(driver.assignedRides) <= 1 THEN Goto(114)
                      ELSE <<[Top EXCEPT !.line = 118, !.i = 2]>> \o Tail(stack)
       \/ /\ Top.line = 114
          /\ out' = Append(out, "  No rides completed yet.")
          /\ stack' = Tail(stack)
       \/ /\ Top.line = 118
          /\ stack' = <<Frame("rideDetails", 35, driver.assignedRides[Top.i], 0)>> \o Goto(119)
          /\ UNCHANGED out
       \/ /\ Top.line = 119
          /\ out' = Append(out, Separator)
          /\ stack' = IF Top.i < Len(driver.assignedRides)
                      THEN <<[Top EXCEPT !.line = 118, !.i = @ + 1]>> \o Tail(stack)
                      ELSE Tail(stack)
    /\ UNCHANGED <<heap, locals, param, rider, driver, systemRides, inner>>

\* Driver::getDriverInfo
getDriverInfo ==
    /\ stack # <<>> /\ Top.fn = "getDriverInfo"
    /\ \/ /\ Top.line = 108
          /\ out' = out \o <<"", "--- Driver Details ---">>
          /\ stack' = Goto(109)
       \/ /\ Top.line = 109
          /\ out' = Append(out, "Driver ID: " \o driver.driverID)
          /\ stack' = Goto(110)
       \/ /\ Top.line = 110
          /\ out' = Append(out, "Name: " \o driver.name)
          /\ stack' = Goto(111)
       \/ /\ Top.line = 111
          /\ out' = Append(out, "Rating: " \o Fixed(driver.rating, 1) \o "/5.0")
          /\ stack' = Goto(112)
       \/ /\ Top.line = 112
          /\ out' = Append(out, "Completed Rides (" \o Dec(Len(driver.assignedRides)) \o "):")
          /\ stack' = IF driver.assignedRides = <<>> THEN Goto(114)
                      ELSE <<[Top EXCEPT !.line = 118, !.i = 1]>> \o Tail(stack)
       \/ /\ Top.line = 114
          /\ out' = Append(out, "  No rides completed yet.")
          /\ stack' = Tail(stack)
       \/ /\ Top.line = 118
          /\ stack' = <<Frame("rideDetails", 35, driver.assignedRides[Top.i], 0)>> \o Goto(119)
          /\ UNCHANGED out
       \/ /\ Top.line = 119
          /\ out' = Append(out, Separator)
          /\ stack' = IF Top.i < Len(driver.assignedRides)
                      THEN <<[Top EXCEPT !.line = 118, !.i = @ + 1]>> \o Tail(stack)
                      ELSE Tail(stack)
    /\ UNCHANGED <<heap, locals, param, rider, driver, systemRides, inner>>

\* ------------------------------------- the client's own statements
\* systemRides.push_back(std::move(binding)) (of a temporary, in the demonstration)
SystemPushBack(v) ==
    /\ Idle /\ v \in 1..Len(locals) /\ locals[v] # NULL
    /\ systemRides' = Append(systemRides, locals[v])
    /\ locals' = [locals EXCEPT ![v] = NULL]
    /\ UNCHANGED <<heap, param, rider, driver, stack, logs>>

\* ------------------------------------------------- an open client
\* Any client of the classes: it calls the public operations in any order on
\* the rides it holds, one call at a time (the program is single threaded),
\* and has read what std::cout held and what the last call returned.
Consume == out' = <<>> /\ ret' = NoRet /\ mark' = 0 /\ UNCHANGED demo

OpenMakeUnique ==
    /\ Len(heap) < MaxRides
    /\ \E c \in OpenRides : MakeUnique(c[1], <<c[2], c[3], c[4], c[5]>>)
    /\ Consume

OpenRequestRide == (\E v \in 1..Len(locals) : CallRequestRide(v)) /\ Consume

OpenAddRide == (\E v \in 1..Len(locals) : CallAddRide(v)) /\ Consume

OpenGetDriverInfo == CallGetDriverInfo /\ Consume

OpenViewRides == CallViewRides /\ Consume

OpenRideDetails == (\E h \in Held : CallRideDetails(h)) /\ Consume

OpenCalculateFare ==
    /\ \E h \in Held : heap[h].calcCount < MaxCalc /\ CallCalculateFare(h)
    /\ Consume

OpenGetFare == (\E h \in Held : CallGetFare(h)) /\ Consume

OpenGetRideID == (\E h \in Held : CallGetRideID(h)) /\ Consume

\* the steps of the methods, whoever called them
Methods ==
    \/ VariantCtor
    \/ rideDetails
    \/ requestRide
    \/ viewRides
    \/ addRide
    \/ getDriverInfo

Next ==
    \/ OpenMakeUnique
    \/ OpenRequestRide
    \/ OpenAddRide
    \/ OpenGetDriverInfo
    \/ OpenViewRides
    \/ OpenRideDetails
    \/ OpenCalculateFare
    \/ OpenGetFare
    \/ OpenGetRideID
    \/ getFare
    \/ getRideID
    \/ Methods

Spec == Init /\ [][Next]_vars

\* ------------------------------------ demonstrateSystemFunctionality
\* std::cout << ... << std::endl of the demonstration routine itself
Cout(lines) ==
    /\ Idle
    /\ out' = out \o lines
    /\ UNCHANGED <<heap, locals, param, rider, driver, systemRides, stack, logs>>

Stmt(line, op, kind, args, v, text) ==
    [line |-> line, op |-> op, kind |-> kind, args |-> args, v |-> v, text |-> text]
SCout(line, text) == Stmt(line, "cout", "", <<>>, 0, text)
SMake(line, kind, id, pickup, dropoff, dist) ==
    Stmt(line, "make_unique", kind, <<id, pickup, dropoff, dist>>, 0, <<>>)
SCall(line, op, v) == Stmt(line, op, "", <<>>, v, <<>>)

\* The statements of demonstrateSystemFunctionality in order; v is the binding
\* a statement moves from: the k-th ride constructed is bound to binding k.
Script ==
    << SCout(161, <<"--- C++ Ride Sharing System Demonstration ---">>),
       SMake(168, "StandardRide", "S001", "Downtown", "Suburb A", 105),
       SMake(169, "PremiumRide", "P002", "Airport", "City Center", 250),
       SMake(170, "StandardRide", "S003", "Park", "Museum", 32),
       SCall(173, "requestRide", 1),
       SCall(174, "requestRide", 2),
       SCall(175, "requestRide", 3),
       SMake(185, "StandardRide", "S001-C", "Downtown", "Suburb A", 105),
       SMake(186, "PremiumRide", "P002-C", "Airport", "City Center", 250),
       SMake(187, "StandardRide", "S003-C", "Park", "Museum", 32),
       SCall(189, "addRide", 4),
       SCall(190, "addRide", 5),
       SCall(191, "addRide", 6),
       SCall(195, "getDriverInfo", 0),
       SCall(198, "viewRides", 0),
       SCout(201, <<"", "--- Polymorphism Demonstration (List of All Rides in System) ---">>),
       SMake(203, "StandardRide", "SysR01", "Library", "Cafe", 70),
       SCall(203, "push_back", 7),
       SMake(204, "PremiumRide", "SysR02", "Mall", "Home", 45),
       SCall(204, "push_back", 8),
       SMake(205, "StandardRide", "SysR03", "Gym", "Cafe", 20),
       SCall(205, "push_back", 9),
       SMake(206, "PremiumRide", "SysR04", "School", "Park", 120),
       SCall(206, "push_back", 10),
       SCall(209, "for", 0),
       SCall(214, "calculateFare", 0),
       SCall(215, "rideDetails", 0),
       SCout(216, <<Separator>>),
       SCout(219, <<"", "--- Demonstration Complete ---">>) >>

At(op) == Idle /\ ip \in 1..Len(Script) /\ Script[ip].op = op
LoopBody == CHOOSE k \in 1..Len(Script) : Script[k].line = 214
LoopEnd == CHOOSE k \in 1..Len(Script) : Script[k].line = 216
\* the demonstration routine has returned
Done == Idle /\ ip = Len(Script) + 1

\* the demonstration leaves std::cout alone between its calls
Keep == out' = out /\ ret' = ret /\ mark' = Len(out)
Step == ip' = ip + 1 /\ it' = it

DemoCout ==
    /\ At("cout") /\ ip # LoopEnd
    /\ Cout(Script[ip].text)
    /\ ret' = ret /\ mark' = Len(out)
    /\ Step

DemoMakeUnique ==
    At("make_unique") /\ MakeUnique(Script[ip].kind, Script[ip].args) /\ Keep /\ Step

DemoRequestRide == At("requestRide") /\ CallRequestRide(Script[ip].v) /\ Keep /\ Step

DemoAddRide == At("addRide") /\ CallAddRide(Script[ip].v) /\ Keep /\ Step

DemoGetDriverInfo == At("getDriverInfo") /\ CallGetDriverInfo /\ Keep /\ Step

DemoViewRides == At("viewRides") /\ CallViewRides /\ Keep /\ Step

DemoPushBack == At("push_back") /\ SystemPushBack(Script[ip].v) /\ Keep /\ Step

\* for (const auto& ride : systemRides): begin
DemoFor ==
    /\ At("for")
    /\ it' = 1
    /\ ip' = IF systemRides = <<>> THEN LoopEnd + 1 ELSE LoopBody
    /\ UNCHANGED <<heap, locals, param, rider, driver, systemRides, out, stack, ret,
                   mark, logs>>

\* ride->calculateFare() of the loop body
DemoCalculateFare ==
    At("calculateFare") /\ CallCalculateFare(systemRides[it]) /\ Keep /\ Step

\* ride->rideDetails() of the loop body
DemoRideDetails ==
    At("rideDetails") /\ CallRideDetails(systemRides[it]) /\ Keep /\ Step

\* the separator that ends the loop body, and the loop's increment and test
DemoEndFor ==
    /\ At("cout") /\ ip = LoopEnd
    /\ Cout(Script[ip].text)
    /\ ret' = ret /\ mark' = Len(out)
    /\ IF it < Len(systemRides)
       THEN it' = it + 1 /\ ip' = LoopBody
       ELSE it' = it /\ ip' = ip + 1

DemoInit == InitObjects /\ ip = 1

DemoNext ==
    \/ DemoCout
    \/ DemoMakeUnique
    \/ DemoRequestRide
    \/ DemoAddRide
    \/ DemoGetDriverInfo
    \/ DemoViewRides
    \/ DemoPushBack
    \/ DemoFor
    \/ DemoCalculateFare
    \/ DemoRideDetails
    \/ DemoEndFor
    \/ Methods

DemoSpec == DemoInit /\ [][DemoNext]_vars

\* ------------------------------------------------------- properties
Handles == 1..Len(heap)
\* ride h's constructor is still running
UnderConstruction(h) == \E k \in 1..Len(stack) : stack[k].fn \in Kinds /\ stack[k].self = h
\* ride h is observable: its constructor has ended
Constructed(h) == h \in Handles /\ ~UnderConstruction(h)
IsPrefix(s, t) == Len(s) <= Len(t) /\ SubSeq(t, 1, Len(s)) = s
Occurrences(s, h) == Cardinality({k \in 1..Len(s) : s[k] = h})
\* what the current client call has written so far
Written == SubSeq(out, mark + 1, Len(out))
\* the five lines Ride::rideDetails is to write for ride r
DetailsBlock(r) ==
    << "Ride ID: " \o r.rideID,
       "  Pickup: " \o r.pickupLocation,
       "  Dropoff: " \o r.dropoffLocation,
       "  Distance: " \o Fixed(r.distance, 1) \o " miles",
       "  Fare: $" \o Fixed(r.fare, 2) >>
RECURSIVE Blocks(_)
\* one detail block and separator per ride of the history hs, in its order
Blocks(hs) ==
    IF hs = <<>> THEN <<>>
    ELSE DetailsBlock(heap[Head(hs)]) \o <<Separator>> \o Blocks(Tail(hs))

\* C1: every observable ride's fare is its distance x 2.0 (StandardRide) or
\* its distance x 3.5 + 5.0 (PremiumRide), in every state and whatever
\* operations have run.
C1_FareConsistent ==
    \A h \in Handles :
        Constructed(h) =>
            heap[h].fare = IF heap[h].kind = "StandardRide"
                           THEN heap[h].distance * 20
                           ELSE heap[h].distance * 35 + 500

\* C1 witness: a 25.0 mile PremiumRide at 92.50 in the Rider's history beside
\* a StandardRide in the Driver's.
C1_Witness ==
    /\ Idle
    /\ \E h \in Range(rider.requestedRides) :
           heap[h].kind = "PremiumRide" /\ heap[h].distance = 250 /\ heap[h].fare = 9250
    /\ \E h \in Range(driver.assignedRides) : heap[h].kind = "StandardRide"

\* C2 as stated: calculateFare runs exactly once for every ride of the run.
C2_CalculatedExactlyOnce ==
    \A h \in Handles : Constructed(h) => heap[h].calcCount = 1

C2_Counts ==
    /\ \A h \in Handles :
           /\ UnderConstruction(h) => heap[h].calcCount = 0
           /\ Constructed(h) => heap[h].calcCount \in {1, 2}
           /\ heap[h].calcCount = 2 => Occurrences(systemRides, h) = 1
    /\ Done => \A h \in Handles :
                   heap[h].calcCount = IF h \in Range(systemRides) THEN 2 ELSE 1

C2_FareKept ==
    \A h \in Handles : Constructed(h) => heap'[h].fare = heap[h].fare

\* C2 amended: the variant's constructor runs calculateFare once, right after
\* the base constructor; the rides of the Rider and of the Driver never have
\* it run again, each ride of systemRides has it run once more by the
\* demonstration loop; and the fare a ride has when its constructor ends never
\* changes.
C2_Amended == [](C2_Counts) /\ [][C2_FareKept]_vars

\* C2 witness: the run has ended with the four system rides calculated twice
\* and the six others once.
C2_Witness ==
    /\ Done
    /\ Len(systemRides) = 4
    /\ \A h \in Range(systemRides) : heap[h].calcCount = 2
    /\ \A h \in Range(rider.requestedRides) \cup Range(driver.assignedRides) :
           heap[h].calcCount = 1

C3_HistoryIsLog ==
    /\ Idle => driver.assignedRides = addLog /\ rider.requestedRides = requestLog
    /\ ~Idle => /\ IsPrefix(driver.assignedRides, addLog)
                /\ IsPrefix(rider.requestedRides, requestLog)

C3_AppendOnly ==
    /\ IsPrefix(driver.assignedRides, driver.assignedRides')
    /\ IsPrefix(rider.requestedRides, rider.requestedRides')
    /\ Len(driver.assignedRides') <= Len(driver.assignedRides) + 1
    /\ Len(rider.requestedRides') <= Len(rider.requestedRides) + 1

\* C3: after N addRide (requestRide) calls the history is the N rides passed,
\* in call order, and every step leaves the old history a prefix of the new.
C3_Fifo == [](C3_HistoryIsLog) /\ [][C3_AppendOnly]_vars

\* C3 witness: two addRide calls have returned.
C3_Witness == Idle /\ Len(addLog) = 2 /\ Len(driver.assignedRides) = 2

\* the owners of ride h: the caller's binding, the parameter in flight and the
\* slots of the three collections
Owners(h) ==
    (IF locals[h] = h THEN 1 ELSE 0) + (IF param = h THEN 1 ELSE 0)
    + Occurrences(rider.requestedRides, h) + Occurrences(driver.assignedRides, h)
    + Occurrences(systemRides, h)
InCollection(h) ==
    Occurrences(rider.requestedRides, h) + Occurrences(driver.assignedRides, h)
    + Occurrences(systemRides, h) = 1

\* C4 as stated: no ride has two owners, and the one collection every ride
\* ends in is the Rider's or the Driver's list.
C4_OwnedByRiderOrDriver ==
    /\ \A h \in Handles : Constructed(h) => Owners(h) = 1
    /\ Done => \A h \in Handles :
                   h \in Range(rider.requestedRides) \cup Range(driver.assignedRides)

\* C4 amended: every ride has exactly one owner at a time, so a ride in a
\* collection has no live binding left and is in no other collection; and the
\* collection each ride ends in is the Rider's list, the Driver's list or the
\* demonstration's systemRides.
C4_ExclusiveOwner ==
    /\ \A h \in Handles : Constructed(h) => Owners(h) = 1
    /\ \A h \in Handles : InCollection(h) => locals[h] = NULL /\ param # h
    /\ Done => \A h \in Handles : InCollection(h)

\* C4 witness: the run has ended with three rides in each list and four in
\* systemRides, and no binding left.
C4_Witness ==
    /\ Done
    /\ Len(rider.requestedRides) = 3 /\ Len(driver.assignedRides) = 3
    /\ Len(systemRides) = 4
    /\ \A h \in Handles : locals[h] = NULL

\* the notification and the details requestRide is to have written for ride h
RequestOutput(h) ==
    <<"", rider.name \o " requested a ride.">> \o DetailsBlock(heap[h])

C5_PrintedAtStore == In("requestRide", 141) => Written = RequestOutput(param)

C5_StoreStep ==
    rider.requestedRides' # rider.requestedRides =>
        /\ In("requestRide", 141)
        /\ rider.requestedRides' = Append(rider.requestedRides, param)
        /\ Written = RequestOutput(param)

\* C5: whenever requestRide is about to store, and in every step that stores
\* a ride in requestedRides, the call has already written the notification
\* and then the details of that very ride.
C5_PrintsBeforeStoring == [](C5_PrintedAtStore) /\ [][C5_StoreStep]_vars

\* C5 witness: a second requestRide has just returned, its output still on
\* std::cout.
C5_Witness ==
    /\ Idle
    /\ Len(rider.requestedRides) = 2
    /\ out = RequestOutput(rider.requestedRides[2])

\* the step in which the client's call of fn returns
Returning(fn) == Len(stack) = 1 /\ Top.fn = fn /\ stack' = <<>>
\* what the current client call has written once the step is taken
WrittenAfter == SubSeq(out', mark + 1, Len(out'))

\* the report getDriverInfo is to write: the identity, the number of rides
\* added so far, then the sentinel or one block per ride in insertion order
DriverReport ==
    << "", "--- Driver Details ---",
       "Driver ID: " \o driver.driverID,
       "Name: " \o driver.name,
       "Rating: " \o Fixed(driver.rating, 1) \o "/5.0",
       "Completed Rides (" \o Dec(Len(addLog)) \o "):" >>
    \o (IF addLog = <<>> THEN <<"  No rides completed yet.">> ELSE Blocks(addLog))

\* the history viewRides is to write
RiderReport ==
    <<"", "--- " \o rider.name \o "'s Ride History ---">>
    \o (IF requestLog = <<>> THEN <<"  No rides requested yet.">> ELSE Blocks(requestLog))

C6_Reports ==
    /\ Returning("getDriverInfo") => WrittenAfter = DriverReport
    /\ Returning("viewRides") => WrittenAfter = RiderReport

\* C6: getDriverInfo and viewRides write the sentinel and no block for an
\* empty history, and for N >= 1 rides exactly N blocks in insertion order and
\* no sentinel; the Driver's count is the number of rides added so far.
C6_IterateOrSentinel == [][C6_Reports]_vars

\* C6 witness: getDriverInfo has just returned for a Driver with two rides.
C6_Witness == Idle /\ Len(addLog) = 2 /\ Len(out) = 18 /\ out = DriverReport

IsS001(r) ==
    /\ r.kind = "StandardRide" /\ r.rideID = "S001" /\ r.pickupLocation = "Downtown"
    /\ r.dropoffLocation = "Suburb A" /\ r.distance = 105
IsP002(r) ==
    /\ r.kind = "PremiumRide" /\ r.rideID = "P002" /\ r.pickupLocation = "Airport"
    /\ r.dropoffLocation = "City Center" /\ r.distance = 250
\* the Driver was given the S001 ride and then the P002 ride
GivenS001ThenP002 ==
    /\ Len(driver.assignedRides) = 2
    /\ IsS001(heap[driver.assignedRides[1]])
    /\ IsP002(heap[driver.assignedRides[2]])

C7_Report ==
    << "", "--- Driver Details ---", "Driver ID: D001", "Name: Alice Smith",
       "Rating: 4.8/5.0", "Completed Rides (2):",
       "Ride ID: S001", "  Pickup: Downtown", "  Dropoff: Suburb A",
       "  Distance: 10.5 miles", "  Fare: $21.00", "--------------------",
       "Ride ID: P002", "  Pickup: Airport", "  Dropoff: City Center",
       "  Distance: 25.0 miles", "  Fare: $92.50", "--------------------" >>

C7_Fares ==
    \A h \in Handles :
        Constructed(h) => /\ IsS001(heap[h]) => heap[h].fare = 2100
                          /\ IsP002(heap[h]) => heap[h].fare = 9250

C7_ReportStep ==
    (Returning("getDriverInfo") /\ GivenS001ThenP002) => WrittenAfter = C7_Report

\* C7: StandardRide("S001","Downtown","Suburb A",10.5) has fare 21.00,
\* PremiumRide("P002","Airport","City Center",25.0) has fare 92.50, and a
\* Driver given the two in that order reports "Completed Rides (2):", then the
\* S001 block, then the P002 block.
C7_EndToEnd == [](C7_Fares) /\ [][C7_ReportStep]_vars

\* C7 witness: that Driver's report is on std::cout.
C7_Witness == Idle /\ GivenS001ThenP002 /\ out = C7_Report

\* C8: wherever a frame of rideDetails or getFare is on the stack (so wherever
\* a fare is about to be read), and for every ride anyone holds, the variant's
\* constructor has ended and calculateFare has run.
C8_NoReadBeforeComputed ==
    /\ \A k \in 1..Len(stack) :
           stack[k].fn \in {"rideDetails", "getFare"} =>
               Constructed(stack[k].self) /\ heap[stack[k].self].calcCount >= 1
    /\ \A h \in Handles : Owners(h) >= 1 => heap[h].calcCount >= 1

\* C8 witness: requestRide's rideDetails is about to print the fare of a ride
\* whose computed fare is 0.00.
C8_Witness ==
    /\ In("rideDetails", 39)
    /\ Len(stack) = 2 /\ stack[2].fn = "requestRide"
    /\ heap[Top.self].fare = 0 /\ heap[Top.self].calcCount = 1

ReadOnly == {"rideDetails", "getFare", "getRideID", "getDriverInfo", "viewRides"}

C9_ReadOnlyStep ==
    (stack # <<>> /\ Top.fn \in ReadOnly) =>
        /\ heap' = heap
        /\ rider' = rider /\ driver' = driver /\ systemRides' = systemRides
        /\ locals' = locals /\ param' = param
        /\ IsPrefix(out, out')

\* C9: every step of rideDetails, getFare, getRideID, getDriverInfo and
\* viewRides leaves every ride and every history as it was and at most
\* appends to the output.
C9_DisplayIsReadOnly == [][C9_ReadOnlyStep]_vars

\* C9 witness: viewRides has just returned for a Rider with two rides.
C9_Witness == Idle /\ Len(requestLog) = 2 /\ Len(out) = 14 /\ out = RiderReport

C10_RideKept ==
    \A h \in Handles :
        Constructed(h) =>
            /\ heap'[h].fare = heap[h].fare
            /\ heap'[h].rideID = heap[h].rideID
            /\ heap'[h].pickupLocation = heap[h].pickupLocation
            /\ heap'[h].dropoffLocation = heap[h].dropoffLocation
            /\ heap'[h].distance = heap[h].distance

\* C10: calculateFare run again on a constructed ride, any number of times,
\* leaves its fare, id, pickup, dropoff and distance as they were.
C10_CalculateFareIdempotent == [][C10_RideKept]_vars

\* C10 witness: calculateFare has run again on a StandardRide and on a
\* PremiumRide, which keep their fares of 21.00 and 92.50.
C10_Witness ==
    /\ Idle
    /\ \E h \in Handles : IsS001(heap[h]) /\ heap[h].calcCount = 2 /\ heap[h].fare = 2100
    /\ \E h \in Handles : IsP002(heap[h]) /\ heap[h].calcCount = 2 /\ heap[h].fare = 9250
=============================================================================
